---- MODULE Spec2Model ----
(***************************************************************************)
(* Packfile decoder of go-git (plumbing/format/packfile/decoder.go) and    *)
(* the object iterators of plumbing/storer/object.go.                      *)
(*                                                                         *)
(* The decoder is sequential and recursive.  Each exported method is one   *)
(* action; what the method does, calls it makes included, is computed by   *)
(* operators that thread the mutable state (a record s) through the calls  *)
(* in program order.  The Scanner, the ObjectStorer and ApplyDelta are     *)
(* collaborators of the decoder; their failures are inputs of an action    *)
(* (a fault plan f).                                                       *)
(***************************************************************************)
EXTENDS Integers, Sequences, FiniteSets, TLC

\* ------------------------------------------------------------------ bounds
\* Largest number of objects in a pack.
MaxObjs == 2
\* Payloads (and delta instructions) are abstracted to 0..MaxData.
MaxData == 1
\* The fault plan can fail the k-th Seek of a call, k in 1..MaxSeekFault.
MaxSeekFault == 4
\* Exported methods called on one decoder.
MaxCalls == 2

\* ------------------------------------------------------------- vocabulary
\* plumbing.ObjectType values the decoder dispatches on.
RegularTypes == {"commit", "tree", "blob", "tag"}
\* Types that occur in the packs explored ("invalid" is the reserved tag 5).
PackRegularTypes == {"commit", "blob"}

NoErr == "nil"
ErrNonSeekable == "non-seekable scanner"
ErrInvalidObject == "invalid git object"
ErrRollback == "rollback error, during set error"
ErrObjectNotFound == "object not found"
ErrSeek == "seek failed"
ErrHeader == "malformed pack header"
ErrObjectHeader == "malformed object header"
ErrZLib == "zlib reading error"
ErrSet == "set object failed"
ErrCommit == "commit failed"
ErrRollbackFailed == "rollback failed"
ErrChecksum == "checksum read failed"
ErrStore == "store failure"
ErrInvalidDelta == "invalid delta"
ErrWriter == "writer failed"
ErrClose == "close failed"

ZeroHash == 0
\* d.tx is an interface value; NilTx is its zero value, TheTx what Begin returns.
NilTx == "nil"
TheTx == "tx"

NilObj == [type |-> "nil", size |-> 0, data |-> 0]

Data == 0..MaxData

TypeCode(t) ==
    CASE t = "commit" -> 1
      [] t = "tree" -> 2
      [] t = "blob" -> 3
      [] t = "tag" -> 4
      [] OTHER -> 0

SizeOf(data) == data + 1

\* Object.Hash(): derived from type, size and payload.
Hash(obj) ==
    1 + (TypeCode(obj.type) * (MaxData + 2) + obj.size) * (MaxData + 2) + obj.data

RegObj(t, data) == [type |-> t, size |-> SizeOf(data), data |-> data]

\* Hashes a RefDelta of the packs explored refers to.
RefHashes == {Hash(RegObj(t, 0)) : t \in PackRegularTypes}

\* ------------------------------------------------------------ pack layout
\* The pack header occupies position 0; the header of the i-th object is at
\* position 2i-1 and its body at 2i; the trailing checksum follows.
ObjOffset(i) == 2 * i - 1
PackEnd(p) == 2 * Len(p) + 1
Offsets == 0..(2 * MaxObjs + 1)
\* Values of the offset-reference field of an OfsDelta.
BaseOffsets == 0..(2 * MaxObjs - 1)

Entries ==
    [type : PackRegularTypes, data : Data, ref : {ZeroHash}, ofs : {0}]
      \cup [type : {"ref-delta"}, data : Data, ref : RefHashes, ofs : {0}]
      \cup [type : {"ofs-delta"}, data : Data, ref : {ZeroHash}, ofs : BaseOffsets]
      \cup [type : {"invalid"}, data : {0}, ref : {ZeroHash}, ofs : {0}]

Packs == UNION {[1..n -> Entries] : n \in 0..MaxObjs}

\* CRC-32 of the raw bytes of an entry.
Crc(e) ==
    (TypeCode(e.type) * 31 + e.data * 7 + e.ref * 3 + e.ofs + 5) % 64

\* Trailing checksum of the pack.
RECURSIVE PackSum(_, _)
PackSum(p, i) ==
    IF i > Len(p) THEN 1000 ELSE 1000 + ((Crc(p[i]) + 3 * PackSum(p, i + 1)) % 997)

\* ------------------------------------------------------------ fault plans
\* seek: which Seek of the call fails (0: none).  set: which SetObject of the
\* call fails (0: none).  ext: a collaborator that fails when called.  A plan
\* holds one fault, or a failing SetObject together with a failing Rollback.
NoFault == [seek |-> 0, set |-> 0, ext |-> "none"]
ReadFaults ==
    {NoFault}
      \cup {[NoFault EXCEPT !.seek = k] : k \in 1..MaxSeekFault}
      \cup {[NoFault EXCEPT !.ext = e] : e \in {"zlib", "store", "delta", "writer"}}
Faults ==
    ReadFaults
      \cup {[NoFault EXCEPT !.set = k] : k \in 1..MaxObjs}
      \cup {[NoFault EXCEPT !.ext = e] : e \in {"header", "commit", "checksum"}}
      \cup {[seek |-> 0, set |-> k, ext |-> "rollback"] : k \in 1..MaxObjs}
CloseFaults == {NoFault, [NoFault EXCEPT !.ext = "close"]}

\* ------------------------------------------------------------------ state
VARIABLES
    pack,          \* the bytes behind the scanner: a sequence of entries
    seekable,      \* Scanner.IsSeekable
    mode,          \* d.o: "none" (nil), "plain", "tx" (implements Transactioner)
    phase,         \* "new", "ready", "failed" (NewDecoder error), "crashed";
                   \* "iterating" when the iterators are the system explored
    cursor,        \* read position of the scanner
    offsetToHash,  \* d.offsetToHash
    hashToOffset,  \* d.hashToOffset
    crcs,          \* d.crcs
    tx,            \* d.tx
    store,         \* objects held by the store
    txState,       \* "idle", "open", "committed", "rolledback"
    txObjs,        \* objects set through the open transaction
    calls,         \* exported methods called so far
    last,          \* the last call: method, argument, outcome, collaborator calls
    injected,      \* SetOffsets was called on the decoder
    iters,         \* MultiObjectIter.iters: the wrapped iterators not yet removed
    source,        \* the wrapped iterators the MultiObjectIter was built from
    closes,        \* Close calls received so far, per iterator
    yielded,       \* objects MultiObjectIter.Next returned so far, in order
    direct         \* a method was called on a wrapped iterator itself

\* The variables of the iterators of plumbing/storer.
iterVars == <<iters, source, closes, yielded, direct>>

vars == <<pack, seekable, mode, phase, cursor, offsetToHash, hashToOffset, crcs,
          tx, store, txState, txObjs, calls, last, injected, iterVars>>

\* Maps of a decoder that was not constructed.
Unallocated == [x \in {-1} |-> -1]
EmptyMap == <<>>

Put(m, k, v) == [x \in DOMAIN m \cup {k} |-> IF x = k THEN v ELSE m[x]]

\* ------------------------------------------------- results of the methods
\* kind: "ok" (nil error), "err" (error returned), "panic" (run-time panic,
\* deferred calls still run), "overflow" (stack exhausted, the process dies).
\* detail: what AddDetails was given: the errors an ErrRollback carries, the
\* type an ErrInvalidObject carries.
Ret(s, kind, err, obj) ==
    [s |-> s, kind |-> kind, err |-> err, obj |-> obj, detail |-> <<>>]
Fill(s, kind, err, obj, crc) ==
    [s |-> s, kind |-> kind, err |-> err, obj |-> obj, crc |-> crc,
     detail |-> <<>>]
\* Error.AddDetails
AddDetails(r, d) == [r EXCEPT !.detail = d]
Logged(s, ev) == [s EXCEPT !.log = Append(@, ev)]

\* ---------------------------------------------------------------- Scanner
\* Scanner.Header: reads the signature, the version and the object count.
Header(s, f) ==
    LET t == Logged(s, <<"Header", f.ext # "header" /\ s.cursor = 0>>) IN
    IF f.ext = "header" \/ s.cursor # 0
    THEN [s |-> t, count |-> 0, err |-> ErrHeader]
    ELSE [s |-> [t EXCEPT !.cursor = 1], count |-> Len(pack), err |-> NoErr]

\* Scanner.NextObjectHeader: the header of the object at the cursor.
NextObjectHeader(s) ==
    LET i == (s.cursor + 1) \div 2 IN
    IF s.cursor % 2 = 1 /\ i \in 1..Len(pack)
    THEN [s |-> [s EXCEPT !.cursor = @ + 1],
          err |-> NoErr,
          h |-> [Type |-> pack[i].type,
                 Offset |-> s.cursor,
                 Length |-> IF pack[i].type \in RegularTypes
                            THEN SizeOf(pack[i].data) ELSE 1,
                 Reference |-> pack[i].ref,
                 OffsetReference |-> pack[i].ofs]]
    ELSE [s |-> s, err |-> ErrObjectHeader, h |-> <<>>]

\* Scanner.NextObject: inflates the body at the cursor into a writer.
NextObject(s, f) ==
    LET i == s.cursor \div 2 IN
    IF f.ext = "zlib" \/ s.cursor % 2 # 0 \/ i \notin 1..Len(pack)
    THEN [s |-> s, data |-> 0, crc |-> 0, err |-> ErrZLib]
    ELSE [s |-> [s EXCEPT !.cursor = @ + 1],
          data |-> pack[i].data, crc |-> Crc(pack[i]), err |-> NoErr]

\* Scanner.Seek: moves the cursor and returns the position it had.
Seek(s, f, offset) ==
    LET n == s.nseek + 1
        ok == n # f.seek
    IN [s |-> [s EXCEPT !.nseek = n,
                        !.cursor = IF ok THEN offset ELSE @,
                        !.log = Append(@, <<"Seek", offset, ok>>)],
        prev |-> s.cursor,
        err |-> IF ok THEN NoErr ELSE ErrSeek]

\* Scanner.Close: what is left of the reader is read and discarded.
ScannerClose(s, f) ==
    IF f.ext = "close"
    THEN [s |-> Logged(s, <<"ScannerClose", FALSE>>), err |-> ErrClose]
    ELSE [s |-> [Logged(s, <<"ScannerClose", TRUE>>)
                    EXCEPT !.cursor = PackEnd(pack) + 1],
          err |-> NoErr]

\* Scanner.Checksum: the trailing hash of the pack, wherever the cursor is.
Checksum(s, f) ==
    LET t == Logged(s, <<"Checksum", f.ext # "checksum">>) IN
    IF f.ext = "checksum"
    THEN [s |-> t, sum |-> ZeroHash, err |-> ErrChecksum]
    ELSE [s |-> t, sum |-> PackSum(pack, 1), err |-> NoErr]

\* ------------------------------------------------------------- ApplyDelta
ApplyDelta(obj, base, delta, f) ==
    IF f.ext = "delta"
    THEN [obj |-> obj, err |-> ErrInvalidDelta]
    ELSE LET x == (base.data + delta) % (MaxData + 1) IN
         [obj |-> [obj EXCEPT !.size = SizeOf(x), !.data = x], err |-> NoErr]

\* ------------------------------------------------- ObjectStorer, Transaction
\* ObjectStorer.SetObject
StoreSetObject(s, f, obj) ==
    LET n == s.nset + 1
        t == [s EXCEPT !.nset = n,
                       !.log = Append(@, <<"SetObject", Hash(obj), n # f.set>>)]
    IN IF n = f.set
       THEN Ret(t, "err", ErrSet, obj)
       ELSE Ret([t EXCEPT !.store = @ \cup {obj}], "ok", NoErr, obj)

\* Transactioner.Begin
Begin(s) ==
    [s |-> [Logged(s, <<"Begin">>) EXCEPT !.txState = "open", !.txObjs = {}],
     tx |-> TheTx]

\* A method called on a nil interface value panics.
NilDeref(s) == Ret(s, "panic", "nil pointer dereference", NilObj)

\* Transaction.SetObject
TxSetObject(t, s, f, obj) ==
    IF t = NilTx THEN NilDeref(s)
    ELSE LET n == s.nset + 1
             u == [s EXCEPT !.nset = n,
                            !.log = Append(@, <<"TxSetObject", Hash(obj), n # f.set>>)]
         IN IF n = f.set
            THEN Ret(u, "err", ErrSet, obj)
            ELSE Ret([u EXCEPT !.txObjs = @ \cup {obj}], "ok", NoErr, obj)

\* Transaction.Object
TxObject(t, s, f, h) ==
    IF t = NilTx THEN NilDeref(s)
    ELSE LET u == Logged(s, <<"TxObject", h>>)
             held == {o \in s.store \cup s.txObjs : Hash(o) = h}
         IN IF f.ext = "store" THEN Ret(u, "err", ErrStore, NilObj)
            ELSE IF held = {} THEN Ret(u, "err", ErrObjectNotFound, NilObj)
            ELSE Ret(u, "ok", NoErr, CHOOSE o \in held : TRUE)

\* Transaction.Commit
TxCommit(t, s, f) ==
    IF t = NilTx THEN NilDeref(s)
    ELSE LET u == Logged(s, <<"Commit", f.ext # "commit">>) IN
         IF f.ext = "commit" THEN Ret(u, "err", ErrCommit, NilObj)
         ELSE Ret([u EXCEPT !.store = @ \cup s.txObjs, !.txObjs = {},
                            !.txState = "committed"], "ok", NoErr, NilObj)

\* Transaction.Rollback
TxRollback(t, s, f) ==
    IF t = NilTx THEN NilDeref(s)
    ELSE LET u == Logged(s, <<"Rollback", f.ext # "rollback">>) IN
         IF f.ext = "rollback" THEN Ret(u, "err", ErrRollbackFailed, NilObj)
         ELSE Ret([u EXCEPT !.txObjs = {}, !.txState = "rolledback"],
                  "ok", NoErr, NilObj)

\* ---------------------------------------------------------------- Decoder
\* Each method is one operator; the statements after a call that yields a
\* value are an operator of that value (the operator named ...Then).

\* Depth of ReadObject activations beyond which the stack is exhausted: past
\* the last Seek a fault plan can fail, a chain of bases that visits no object
\* twice is at most Len(pack) deep, and one that does never ends.
MaxDepth == MaxObjs + MaxSeekFault + 1

\* Decoder.newObject
newObject(s) == [type |-> "nil", size |-> 0, data |-> 0]

\* setOffset that records one direction only.
setOffset_ForwardOnly(s, h, offset) ==
    [s EXCEPT !.offsetToHash = Put(@, offset, h)]

\* Decoder.setOffset
setOffset(s, h, offset) ==
    [s EXCEPT !.offsetToHash = Put(@, offset, h),
              !.hashToOffset = Put(@, h, offset)]

\* setCRC that records the CRC under the zero hash.
setCRC_ZeroKey(s, h, crc) == [s EXCEPT !.crcs = Put(@, ZeroHash, crc)]

\* Decoder.setCRC
setCRC(s, h, crc) == [s EXCEPT !.crcs = Put(@, h, crc)]

\* Decoder.fillRegularObjectContent, after d.s.NextObject(w) returned n
fillRegularThen(n, obj) ==
    IF n.err # NoErr
    THEN Fill(n.s, "err", n.err, obj, n.crc)
    ELSE Fill(n.s, "ok", NoErr, [obj EXCEPT !.data = n.data], n.crc)

\* Object.Writer of the object newObject made: the MemoryObject of a decoder
\* without storer writes to memory, the object of a storer can fail to open.
Writer(s, f, obj) ==
    [err |-> IF f.ext = "writer" /\ mode # "none" THEN ErrWriter ELSE NoErr]

\* Decoder.fillRegularObjectContent, after obj.Writer() returned w
writerThen(w, s, f, obj) ==
    IF w.err # NoErr THEN Fill(s, "err", w.err, obj, 0)
    ELSE fillRegularThen(NextObject(s, f), obj)

\* Decoder.fillRegularObjectContent
fillRegularObjectContent(s, f, obj) == writerThen(Writer(s, f, obj), s, f, obj)

RECURSIVE ReadObject(_, _, _)
RECURSIVE ReadObjectAt(_, _, _, _)
RECURSIVE recallByOffset(_, _, _, _)
RECURSIVE recallByHash(_, _, _, _)

\* The end of both fill...DeltaObjectContent: ApplyDelta returned a.
applyDeltaThen(s, a, crc) ==
    Fill(s, IF a.err = NoErr THEN "ok" ELSE "err", a.err, a.obj, crc)

\* recallThen without obj.SetType(base.Type()): the delta keeps its own type.
recallThen_KeepDeltaType(base, n, f, obj) ==
    IF base.kind # "ok"
    THEN AddDetails(Fill(base.s, base.kind, base.err, obj, 0), base.detail)
    ELSE applyDeltaThen(base.s, ApplyDelta(obj, base.obj, n.data, f), n.crc)

\* fill...DeltaObjectContent after the recall of the base returned: the type
\* of the base is given to obj, then the delta n.data is applied.
recallThen(base, n, f, obj) ==
    IF base.kind # "ok"
    THEN AddDetails(Fill(base.s, base.kind, base.err, obj, 0), base.detail)
    ELSE applyDeltaThen(base.s,
             ApplyDelta([obj EXCEPT !.type = base.obj.type], base.obj, n.data, f),
             n.crc)

\* Decoder.fillREFDeltaObjectContent, after d.s.NextObject(buf) returned n
fillREFDeltaThen(n, f, obj, ref, depth) ==
    IF n.err # NoErr THEN Fill(n.s, "err", n.err, obj, 0)
    ELSE recallThen(recallByHash(n.s, f, ref, depth), n, f, obj)

\* Decoder.fillREFDeltaObjectContent
fillREFDeltaObjectContent(s, f, obj, ref, depth) ==
    fillREFDeltaThen(NextObject(s, f), f, obj, ref, depth)

\* Decoder.fillOFSDeltaObjectContent, after d.s.NextObject(buf) returned n
fillOFSDeltaThen(n, f, obj, offset, depth) ==
    IF n.err # NoErr THEN Fill(n.s, "err", n.err, obj, 0)
    ELSE recallThen(recallByOffset(n.s, f, offset, depth), n, f, obj)

\* Decoder.fillOFSDeltaObjectContent
fillOFSDeltaObjectContent(s, f, obj, offset, depth) ==
    fillOFSDeltaThen(NextObject(s, f), f, obj, offset, depth)

\* The history of a call records how each ReadObject activation ended, and
\* the hash and the type of the object it returned.
Returned(r, depth) ==
    [r EXCEPT !.s = Logged(@, <<"ReadObjectRet", depth, r.kind, r.err,
                                 Hash(r.obj), r.obj.type>>)]

\* fillThen that records the offset of an object whose decode failed.
fillThen_IndexOnFailure(fr, h, depth) ==
    IF fr.kind = "panic"
    THEN Returned(AddDetails(Ret(fr.s, fr.kind, fr.err, fr.obj), fr.detail), depth)
    ELSE Returned(AddDetails(Ret(setCRC(setOffset(fr.s, Hash(fr.obj), h.Offset),
                                        Hash(fr.obj), fr.crc),
                                 fr.kind, fr.err, fr.obj), fr.detail), depth)

\* Decoder.ReadObject, after the switch on h.Type gave fr
fillThen(fr, h, depth) ==
    IF fr.kind # "ok"
    THEN Returned(AddDetails(Ret(fr.s, fr.kind, fr.err, fr.obj), fr.detail), depth)
    ELSE Returned(Ret(setCRC(setOffset(fr.s, Hash(fr.obj), h.Offset),
                             Hash(fr.obj), fr.crc),
                      "ok", NoErr, fr.obj), depth)

\* Decoder.ReadObject: the switch on h.Type, obj being the new object with the
\* size and the type of the header
fillByType(s, f, h, obj, depth) ==
    CASE h.Type \in RegularTypes ->
           fillRegularObjectContent(s, f, obj)
      [] h.Type = "ref-delta" ->
           fillREFDeltaObjectContent(s, f, obj, h.Reference, depth)
      [] h.Type = "ofs-delta" ->
           fillOFSDeltaObjectContent(s, f, obj, h.OffsetReference, depth)
      [] OTHER -> AddDetails(Fill(s, "err", ErrInvalidObject, obj, 0), <<h.Type>>)

\* Decoder.ReadObject, after d.s.NextObjectHeader() returned hr
headerThen(hr, f, depth) ==
    IF hr.err # NoErr THEN Returned(Ret(hr.s, "err", hr.err, NilObj), depth)
    ELSE fillThen(
             fillByType(hr.s, f, hr.h,
                        [newObject(hr.s) EXCEPT !.size = hr.h.Length,
                                                !.type = hr.h.Type],
                        depth),
             hr.h, depth)

\* Decoder.ReadObject
ReadObject(s, f, depth) ==
    IF depth > MaxDepth THEN Ret(s, "overflow", "stack overflow", NilObj)
    ELSE headerThen(NextObjectHeader(Logged(s, <<"ReadObject", depth, s.cursor>>)),
                    f, depth)

\* restoreAfterJump without defer: the cursor is put back only after a
\* ReadObject that succeeded.
restoreAfterJump_OnlyOnSuccess(r, f, beforeJump) ==
    IF r.kind # "ok" THEN r
    ELSE [r EXCEPT !.s = Seek(@, f, beforeJump).s]

\* The function deferred by ReadObjectAt: seeks back to beforeJump.  Its
\* assignment goes to the local err (nil after the first Seek), which is not a
\* result of ReadObjectAt: what ReadObject returned is returned.
restoreAfterJump(r, f, beforeJump) ==
    [r EXCEPT !.s = Seek(@, f, beforeJump).s]

\* The history of a call records the cursor at which each ReadObjectAt
\* activation started and ended.
Left(r, depth) ==
    [r EXCEPT !.s = Logged(@, <<"ReadObjectAtRet", depth, r.s.cursor>>)]

\* Decoder.ReadObjectAt, after d.ReadObject() returned r: the deferred
\* function runs unless the process died.
readThen(r, f, beforeJump, depth) ==
    IF r.kind = "overflow" THEN r
    ELSE Left(restoreAfterJump(r, f, beforeJump), depth)

\* Decoder.ReadObjectAt, after d.s.Seek(offset) returned j
jumpThen(j, f, depth) ==
    IF j.err # NoErr THEN Left(Ret(j.s, "err", j.err, NilObj), depth)
    ELSE readThen(ReadObject(j.s, f, depth + 1), f, j.prev, depth)

\* ReadObjectAt without the check of Scanner.IsSeekable.
ReadObjectAt_NoSeekableCheck(s, f, offset, depth) ==
    jumpThen(Seek(Logged(s, <<"ReadObjectAt", depth, s.cursor>>), f, offset),
             f, depth)

\* Decoder.ReadObjectAt
ReadObjectAt(s, f, offset, depth) ==
    IF ~seekable
    THEN Left(Ret(Logged(s, <<"ReadObjectAt", depth, s.cursor>>),
                  "err", ErrNonSeekable, NilObj), depth)
    ELSE jumpThen(Seek(Logged(s, <<"ReadObjectAt", depth, s.cursor>>), f, offset),
                  f, depth)

\* The history of a call records the offset each recallByOffset was given and
\* the keys offsetToHash had at that moment.
Recalled(s, o) == Logged(s, <<"recallByOffset", o, DOMAIN s.offsetToHash>>)

\* Decoder.recallByOffset
recallByOffset(s, f, o, depth) ==
    IF seekable THEN ReadObjectAt(Recalled(s, o), f, o, depth)
    ELSE IF o \in DOMAIN s.offsetToHash
    THEN TxObject(s.tx, Recalled(s, o), f, s.offsetToHash[o])
    ELSE Ret(Recalled(s, o), "err", ErrObjectNotFound, NilObj)

\* Decoder.recallByHash, after d.tx.Object(plumbing.AnyObject, h) returned r
txObjectThen(r) ==
    IF r.kind # "err" \/ r.err # ErrObjectNotFound THEN r
    ELSE Ret(r.s, "err", ErrObjectNotFound, NilObj)

\* The history of a call records the hash each recallByHash was given and
\* what hashToOffset was at that moment.
RecalledHash(s, h) == Logged(s, <<"recallByHash", h, s.hashToOffset>>)

\* Decoder.recallByHash
recallByHash(s, f, h, depth) ==
    IF seekable /\ h \in DOMAIN s.hashToOffset
    THEN ReadObjectAt(RecalledHash(s, h), f, s.hashToOffset[h], depth)
    ELSE txObjectThen(TxObject(s.tx, RecalledHash(s, h), f, h))

RECURSIVE readObjects(_, _, _, _)

\* Decoder.readObjects, the i-th iteration after d.ReadObject() returned r
readObjectsThen(r, f, i, count) ==
    IF r.kind # "ok" THEN r ELSE readObjects(r.s, f, i + 1, count)

\* readObjects with a loop bound off by one.
readObjects_OneMore(s, f, i, count) ==
    IF i > count THEN Ret(s, "ok", NoErr, NilObj)
    ELSE readObjectsThen(ReadObject(s, f, 0), f, i, count)

\* Decoder.readObjects, from the i-th iteration on
readObjects(s, f, i, count) ==
    IF i >= count THEN Ret(s, "ok", NoErr, NilObj)
    ELSE readObjectsThen(ReadObject(s, f, 0), f, i, count)

RECURSIVE readObjectsWithObjectStorer(_, _, _, _)

\* Decoder.readObjectsWithObjectStorer, the i-th iteration after
\* d.o.SetObject(obj) returned w
setObjectThen(w, f, i, count) ==
    IF w.kind # "ok" THEN w
    ELSE readObjectsWithObjectStorer(w.s, f, i + 1, count)

\* Decoder.readObjectsWithObjectStorer, the i-th iteration after
\* d.ReadObject() returned r
readAndSetThen(r, f, i, count) ==
    IF r.kind # "ok" THEN r
    ELSE setObjectThen(StoreSetObject(r.s, f, r.obj), f, i, count)

\* Decoder.readObjectsWithObjectStorer, from the i-th iteration on
readObjectsWithObjectStorer(s, f, i, count) ==
    IF i >= count THEN Ret(s, "ok", NoErr, NilObj)
    ELSE readAndSetThen(ReadObject(s, f, 0), f, i, count)

RECURSIVE txLoop(_, _, _, _, _)

\* Decoder.readObjectsWithObjectStorerTx, after d.tx.Rollback() returned b;
\* w is what tx.SetObject returned
rollbackThen(b, w) ==
    IF b.kind = "panic" THEN b
    ELSE IF b.err # NoErr
    THEN AddDetails(Ret(b.s, "err", ErrRollback, NilObj), <<b.err, w.err>>)
    ELSE Ret(b.s, "err", w.err, NilObj)

\* Decoder.readObjectsWithObjectStorerTx, the i-th iteration after
\* tx.SetObject(obj) returned w; t is the local tx, w.s.tx the field d.tx
txSetObjectThen(t, w, f, i, count) ==
    IF w.kind = "ok" THEN txLoop(t, w.s, f, i + 1, count)
    ELSE IF w.kind # "err" THEN w
    ELSE rollbackThen(TxRollback(w.s.tx, w.s, f), w)

\* txReadThen with a slip: a failed ReadObject leaves the loop by break, and
\* the Commit after the loop runs.
txReadThen_CommitAfterFailedRead(t, r, f, i, count) ==
    IF r.kind = "err" THEN TxCommit(t, r.s, f)
    ELSE IF r.kind # "ok" THEN r
    ELSE txSetObjectThen(t, TxSetObject(t, r.s, f, r.obj), f, i, count)

\* Decoder.readObjectsWithObjectStorerTx, the i-th iteration after
\* d.ReadObject() returned r
txReadThen(t, r, f, i, count) ==
    IF r.kind # "ok" THEN r
    ELSE txSetObjectThen(t, TxSetObject(t, r.s, f, r.obj), f, i, count)

\* The loop of Decoder.readObjectsWithObjectStorerTx, from the i-th iteration
\* on; t is the local tx that Begin returned.
txLoop(t, s, f, i, count) ==
    IF i >= count THEN TxCommit(t, s, f)
    ELSE txReadThen(t, ReadObject(s, f, 0), f, i, count)

\* Decoder.readObjectsWithObjectStorerTx, after Begin() returned b
beginThen(b, f, count) == txLoop(b.tx, b.s, f, 0, count)

\* Decoder.readObjectsWithObjectStorerTx
readObjectsWithObjectStorerTx(s, f, count) == beginThen(Begin(s), f, count)

\* Decoder.doDecode, after d.s.Header() returned hd
decodeThen(hd, f) ==
    IF hd.err # NoErr THEN Ret(hd.s, "err", hd.err, NilObj)
    ELSE CASE mode = "none" -> readObjects(hd.s, f, 0, hd.count)
           [] mode = "tx" -> readObjectsWithObjectStorerTx(hd.s, f, hd.count)
           [] OTHER -> readObjectsWithObjectStorer(hd.s, f, 0, hd.count)

\* Decoder.doDecode
doDecode(s, f) == decodeThen(Header(s, f), f)

\* Decoder.Decode, after d.s.Checksum() returned c
checksumThen(c) ==
    [s |-> c.s, kind |-> IF c.err = NoErr THEN "ok" ELSE "err",
     err |-> c.err, detail |-> <<>>, obj |-> NilObj, sum |-> c.sum]

\* Decoder.Decode, after d.doDecode() returned r
doDecodeThen(r, f) ==
    IF r.kind # "ok"
    THEN [s |-> r.s, kind |-> r.kind, err |-> r.err, detail |-> r.detail,
          obj |-> NilObj, sum |-> ZeroHash]
    ELSE checksumThen(Checksum(r.s, f))

\* Decoder.Decode
Decode(s, f) == doDecodeThen(doDecode(s, f), f)

\* ------------------------------------------------------------ the machine
\* What the store holds before the decoder runs: one blob, a base for thin packs.
InitialStore == {RegObj("blob", 0)}

NoCall ==
    [op |-> "none", arg |-> 0, kind |-> "ok", err |-> NoErr, detail |-> <<>>,
     obj |-> NilObj, sum |-> ZeroHash, log |-> <<>>,
     pre |-> [cursor |-> 0, store |-> {}, offsetToHash |-> Unallocated,
              hashToOffset |-> Unallocated, crcs |-> Unallocated]]

Init ==
    /\ pack \in Packs
    /\ seekable \in BOOLEAN
    /\ mode \in {"none", "plain", "tx"}
    /\ store = IF mode = "none" THEN {} ELSE InitialStore
    /\ phase = "new"
    /\ cursor = 0
    /\ offsetToHash = Unallocated
    /\ hashToOffset = Unallocated
    /\ crcs = Unallocated
    /\ tx = NilTx
    /\ txState = "idle"
    /\ txObjs = {}
    /\ calls = 0
    /\ last = NoCall
    /\ injected = FALSE
    /\ iters = <<>>
    /\ source = <<>>
    /\ closes = <<>>
    /\ yielded = <<>>
    /\ direct = FALSE

\* The decoder's and its collaborators' state at the start of a call.
Enter ==
    [cursor |-> cursor, offsetToHash |-> offsetToHash,
     hashToOffset |-> hashToOffset, crcs |-> crcs, tx |-> tx, store |-> store,
     txState |-> txState, txObjs |-> txObjs, log |-> <<>>, nseek |-> 0,
     nset |-> 0]

\* ReadObject and ReadObjectAt return no checksum.
NoSum(r) ==
    [s |-> r.s, kind |-> r.kind, err |-> r.err, detail |-> r.detail,
     obj |-> r.obj, sum |-> ZeroHash]

\* The state a call leaves: a panic or an exhausted stack ends the process.
Leave(op, arg, r) ==
    /\ cursor' = r.s.cursor
    /\ offsetToHash' = r.s.offsetToHash
    /\ hashToOffset' = r.s.hashToOffset
    /\ crcs' = r.s.crcs
    /\ tx' = r.s.tx
    /\ store' = r.s.store
    /\ txState' = r.s.txState
    /\ txObjs' = r.s.txObjs
    /\ phase' = IF r.kind \in {"panic", "overflow"} THEN "crashed" ELSE phase
    /\ calls' = calls + 1
    /\ last' = [op |-> op, arg |-> arg, kind |-> r.kind, err |-> r.err,
                detail |-> r.detail, obj |-> r.obj, sum |-> r.sum,
                log |-> r.s.log,
                pre |-> [cursor |-> cursor, store |-> store,
                         offsetToHash |-> offsetToHash,
                         hashToOffset |-> hashToOffset, crcs |-> crcs]]
    /\ UNCHANGED <<pack, seekable, mode, injected, iterVars>>

\* NewDecoder
NewDecoder ==
    /\ phase = "new"
    /\ IF ~seekable /\ mode = "none"
       THEN /\ phase' = "failed"
            /\ last' = [NoCall EXCEPT !.op = "NewDecoder", !.kind = "err",
                                      !.err = ErrNonSeekable]
            /\ UNCHANGED <<offsetToHash, hashToOffset, crcs>>
       ELSE /\ phase' = "ready"
            /\ last' = [NoCall EXCEPT !.op = "NewDecoder"]
            /\ offsetToHash' = EmptyMap
            /\ hashToOffset' = EmptyMap
            /\ crcs' = EmptyMap
    /\ UNCHANGED <<pack, seekable, mode, cursor, tx, store, txState, txObjs, calls,
                   injected, iterVars>>

\* Decoder.Decode
DecodeCall ==
    /\ phase = "ready"
    /\ calls < MaxCalls
    /\ \E f \in Faults : Leave("Decode", 0, Decode(Enter, f))

\* Decoder.ReadObject
ReadObjectCall ==
    /\ phase = "ready"
    /\ calls < MaxCalls
    /\ \E f \in ReadFaults :
         Leave("ReadObject", 0, NoSum(ReadObject(Enter, f, 0)))

\* Decoder.ReadObjectAt
ReadObjectAtCall ==
    /\ phase = "ready"
    /\ calls < MaxCalls
    /\ \E o \in Offsets, f \in ReadFaults :
         Leave("ReadObjectAt", o, NoSum(ReadObjectAt(Enter, f, o, 0)))

\* Maps a caller injects with SetOffsets: empty, or one hash of RefHashes at
\* the offset of an object.
InjectedMaps ==
    {EmptyMap} \cup {Put(EmptyMap, h, ObjOffset(i)) : h \in RefHashes, i \in 1..MaxObjs}

\* SetOffsets that also resets the inverse map.
SetOffsets_ResetsInverse(m) ==
    /\ hashToOffset' = m
    /\ offsetToHash' = EmptyMap
    /\ injected' = TRUE
    /\ calls' = calls + 1
    /\ last' = [NoCall EXCEPT !.op = "SetOffsets", !.arg = m,
                              !.pre = [cursor |-> cursor, store |-> store,
                                       offsetToHash |-> offsetToHash,
                                       hashToOffset |-> hashToOffset,
                                       crcs |-> crcs]]
    /\ UNCHANGED <<pack, seekable, mode, phase, cursor, crcs, tx,
                   store, txState, txObjs, iterVars>>

\* Decoder.SetOffsets
SetOffsets(m) ==
    /\ hashToOffset' = m
    /\ injected' = TRUE
    /\ calls' = calls + 1
    /\ last' = [NoCall EXCEPT !.op = "SetOffsets", !.arg = m,
                              !.pre = [cursor |-> cursor, store |-> store,
                                       offsetToHash |-> offsetToHash,
                                       hashToOffset |-> hashToOffset,
                                       crcs |-> crcs]]
    /\ UNCHANGED <<pack, seekable, mode, phase, cursor, offsetToHash, crcs, tx,
                   store, txState, txObjs, iterVars>>

SetOffsetsCall ==
    /\ phase = "ready"
    /\ calls < MaxCalls
    /\ \E m \in InjectedMaps : SetOffsets(m)

\* Decoder.Close, after d.s.Close() returned c
closeThen(c) ==
    Ret(c.s, IF c.err = NoErr THEN "ok" ELSE "err", c.err, NilObj)

\* Decoder.Close
Close(s, f) == closeThen(ScannerClose(s, f))

CloseCall ==
    /\ phase = "ready"
    /\ calls < MaxCalls
    /\ \E f \in CloseFaults : Leave("Close", 0, NoSum(Close(Enter, f)))

\* Decoder.Offsets
GetOffsets == hashToOffset

\* Decoder.CRCs
CRCs == crcs

Next ==
    \/ NewDecoder
    \/ DecodeCall
    \/ ReadObjectCall
    \/ ReadObjectAtCall
    \/ SetOffsetsCall
    \/ CloseCall

Spec == Init /\ [][Next]_vars

\* Packs of MaxLongObjs objects over fewer entries: a commit, a blob, a
\* RefDelta against that commit, OfsDeltas against the first two offsets; a
\* delta can have a delta as its base.
MaxLongObjs == 3
LongEntries ==
    {e \in Entries :
        \/ e.type \in PackRegularTypes /\ e.data = 0
        \/ e.type = "ref-delta" /\ e.data = 1 /\ e.ref = Hash(RegObj("commit", 0))
        \/ e.type = "ofs-delta" /\ e.data = 1 /\ e.ofs \in {ObjOffset(1), ObjOffset(2)}}
LongPacks == [1..MaxLongObjs -> LongEntries]

LongInit ==
    /\ pack \in LongPacks
    /\ seekable \in BOOLEAN
    /\ mode \in {"none", "plain", "tx"}
    /\ store = IF mode = "none" THEN {} ELSE InitialStore
    /\ phase = "new"
    /\ cursor = 0
    /\ offsetToHash = Unallocated
    /\ hashToOffset = Unallocated
    /\ crcs = Unallocated
    /\ tx = NilTx
    /\ txState = "idle"
    /\ txObjs = {}
    /\ calls = 0
    /\ last = NoCall
    /\ injected = FALSE
    /\ iters = <<>>
    /\ source = <<>>
    /\ closes = <<>>
    /\ yielded = <<>>
    /\ direct = FALSE

\* The decoder over the longer packs.
LongSpec == LongInit /\ [][Next]_vars

\* -------------------------------------------------- iterators (storer)
\* Longest series of a wrapped iterator, most iterators a MultiObjectIter
\* wraps, most methods called on one MultiObjectIter.
MaxSeries == 2
MaxIters == 2
MaxIterCalls == 3

EOF == "EOF"
ErrStop == "stop iter"
ErrCallback == "callback failed"

\* Objects of an ObjectSliceIter; an ObjectLookupIter is given hashes of
\* RefHashes, of which the storage holds the blob only.
IterObjs == {RegObj("blob", 0), RegObj("commit", 0)}
SeqsOver(S) == UNION {[1..n -> S] : n \in 0..MaxSeries}
WrappedIters ==
    [kind : {"slice"}, series : SeqsOver(IterObjs), pos : {0}]
      \cup [kind : {"lookup"}, series : SeqsOver(RefHashes), pos : {0}]
Sources == UNION {[1..n -> WrappedIters] : n \in 0..MaxIters}
\* The k-th wrapped iterator is given the identity k.
Tagged(src) ==
    [k \in DOMAIN src |->
        [id |-> k, kind |-> src[k].kind, series |-> src[k].series,
         pos |-> src[k].pos]]

\* The callback of a ForEach: its at-th call returns ret, the others nil
\* (at = 0: every call returns nil).
CbPlans ==
    {[at |-> 0, ret |-> NoErr]}
      \cup [at : 1..(MaxSeries + 1), ret : {ErrStop, ErrCallback}]

\* ObjectStorer.Object(t, hash) of the storage of an ObjectLookupIter
StorerObject(h) ==
    IF \E o \in store : Hash(o) = h
    THEN [obj |-> CHOOSE o \in store : Hash(o) = h, err |-> NoErr]
    ELSE [obj |-> NilObj, err |-> ErrObjectNotFound]

\* ObjectLookupIter.Next, after iter.storage.Object(iter.t, hash) returned r
lookupThen(it, r) ==
    [it |-> IF r.err = NoErr THEN [it EXCEPT !.pos = @ + 1] ELSE it,
     obj |-> r.obj, err |-> r.err]

\* ObjectLookupIter.Next
ObjectLookupIterNext(it) ==
    IF it.pos >= Len(it.series)
    THEN [it |-> it, obj |-> NilObj, err |-> EOF]
    ELSE lookupThen(it, StorerObject(it.series[it.pos + 1]))

\* ObjectLookupIter.Close
ObjectLookupIterClose(it) == [it EXCEPT !.pos = Len(it.series)]

\* ObjectSliceIter.Next
ObjectSliceIterNext(it) ==
    IF Len(it.series) = 0
    THEN [it |-> it, obj |-> NilObj, err |-> EOF]
    ELSE [it |-> [it EXCEPT !.series = Tail(@)], obj |-> Head(it.series),
          err |-> NoErr]

\* ObjectSliceIter.Close
ObjectSliceIterClose(it) == [it EXCEPT !.series = <<>>]

\* ObjectIter.Next and ObjectIter.Close on a wrapped iterator (dynamic dispatch)
WrappedNext(it) ==
    IF it.kind = "slice" THEN ObjectSliceIterNext(it) ELSE ObjectLookupIterNext(it)
WrappedClose(it) ==
    IF it.kind = "slice" THEN ObjectSliceIterClose(it) ELSE ObjectLookupIterClose(it)

RECURSIVE MultiObjectIterNext(_)

\* nextThen that removes the first iterator on any error.
nextThen_RemovesOnError(m, r) ==
    IF r.err # NoErr
    THEN MultiObjectIterNext(
             [m EXCEPT !.closes[m.iters[1].id] = @ + 1,
                       !.iters = Tail(@),
                       !.log = Append(Append(@, <<"Next", m.iters[1].id, r.err>>),
                                      <<"Close", m.iters[1].id>>)])
    ELSE [m |-> [m EXCEPT !.iters[1] = r.it,
                          !.log = Append(@, <<"Next", m.iters[1].id, r.err>>),
                          !.yielded = Append(@, r.obj)],
          obj |-> r.obj, err |-> r.err]

\* MultiObjectIter.Next, after iter.iters[0].Next() returned r
nextThen(m, r) ==
    IF r.err = EOF
    THEN MultiObjectIterNext(
             [m EXCEPT !.closes[m.iters[1].id] = @ + 1,
                       !.iters = Tail(@),
                       !.log = Append(Append(@, <<"Next", m.iters[1].id, EOF>>),
                                      <<"Close", m.iters[1].id>>)])
    ELSE [m |-> [m EXCEPT !.iters[1] = r.it,
                          !.log = Append(@, <<"Next", m.iters[1].id, r.err>>),
                          !.yielded = IF r.err = NoErr THEN Append(@, r.obj) ELSE @],
          obj |-> r.obj, err |-> r.err]

\* MultiObjectIter.Next
MultiObjectIterNext(m) ==
    IF Len(m.iters) = 0
    THEN [m |-> m, obj |-> NilObj, err |-> EOF]
    ELSE nextThen(m, WrappedNext(m.iters[1]))

\* MultiObjectIter.Close: closes the iterators it still wraps.
MultiObjectIterClose(m) ==
    [m EXCEPT !.iters = [k \in DOMAIN @ |-> WrappedClose(@[k])],
              !.closes = [id \in DOMAIN @ |->
                             IF id = 0 \/ \E k \in DOMAIN m.iters : m.iters[k].id = id
                             THEN @[id] + 1 ELSE @[id]],
              !.log = Append(@, <<"MultiClose">>)]

\* The wrapped iterator of identity k: the MultiObjectIter holds it, or has
\* closed it and dropped it.
IterOf(m, k) ==
    IF \E j \in DOMAIN m.iters : m.iters[j].id = k
    THEN m.iters[CHOOSE j \in DOMAIN m.iters : m.iters[j].id = k]
    ELSE WrappedClose(source[k])
\* The MultiObjectIter and the caller hold the same iterator: what a method
\* does to it is seen by both.
SetIter(m, k, it) ==
    [m EXCEPT !.iters = [j \in DOMAIN @ |-> IF @[j].id = k THEN it ELSE @[j]]]

\* Next of the wrapped iterator of identity k returned r
wrappedNextThen(m, k, r) == [m |-> SetIter(m, k, r.it), obj |-> r.obj, err |-> r.err]

\* bareIterator.Next and bareIterator.Close (dynamic dispatch): t = 0 is the
\* MultiObjectIter, t = k the wrapped iterator of identity k.
bareNext(m, t) ==
    IF t = 0 THEN MultiObjectIterNext(m)
    ELSE wrappedNextThen(m, t, WrappedNext(IterOf(m, t)))
bareClose(m, t) ==
    IF t = 0 THEN MultiObjectIterClose(m)
    ELSE [SetIter(m, t, WrappedClose(IterOf(m, t)))
            EXCEPT !.closes[t] = @ + 1, !.log = Append(@, <<"Close", t>>)]

RECURSIVE ForEachLoop(_, _, _, _)

\* What the (n+1)-th call of the callback returns.
Callback(cb, n) == IF n + 1 = cb.at THEN cb.ret ELSE NoErr

\* cbThen that returns ErrStop to the caller like any other error.
cbThen_StopIsAnError(m, t, e, cb, n) ==
    IF e = NoErr THEN ForEachLoop(m, t, cb, n + 1)
    ELSE [m |-> m, obj |-> NilObj, err |-> e]

\* ForEachIterator, after cb(obj) returned e
cbThen(m, t, e, cb, n) ==
    IF e = NoErr THEN ForEachLoop(m, t, cb, n + 1)
    ELSE IF e = ErrStop THEN [m |-> m, obj |-> NilObj, err |-> NoErr]
    ELSE [m |-> m, obj |-> NilObj, err |-> e]

\* ForEachIterator, after iter.Next() returned r
loopThen(r, t, cb, n) ==
    IF r.err # NoErr
    THEN [m |-> [r.m EXCEPT !.log = Append(@, <<"iter.Next", r.err, Hash(r.obj)>>)],
          obj |-> NilObj, err |-> IF r.err = EOF THEN NoErr ELSE r.err]
    ELSE cbThen([r.m EXCEPT !.log =
                    Append(Append(@, <<"iter.Next", r.err, Hash(r.obj)>>),
                           <<"cb", Callback(cb, n), Hash(r.obj)>>)],
                t, Callback(cb, n), cb, n)

\* The loop of ForEachIterator, n calls of the callback made
ForEachLoop(m, t, cb, n) == loopThen(bareNext(m, t), t, cb, n)

\* ForEachIterator: the deferred iter.Close() runs on every return.
deferredClose(r, t) == [r EXCEPT !.m = bareClose(@, t)]

\* ForEachIterator, iter being the iterator t
ForEachIterator(m, t, cb) == deferredClose(ForEachLoop(m, t, cb, 0), t)

\* NewMultiObjectIter over the iterators source
IterInit ==
    /\ pack = <<>>
    /\ seekable = FALSE
    /\ mode = "none"
    /\ store = InitialStore
    /\ phase = "iterating"
    /\ cursor = 0
    /\ offsetToHash = Unallocated
    /\ hashToOffset = Unallocated
    /\ crcs = Unallocated
    /\ tx = NilTx
    /\ txState = "idle"
    /\ txObjs = {}
    /\ calls = 0
    /\ last = NoCall
    /\ injected = FALSE
    /\ \E src \in Sources : source = Tagged(src)
    /\ iters = source
    /\ closes = [id \in 0..Len(source) |-> 0]
    /\ yielded = <<>>
    /\ direct = FALSE

IterEnter == [iters |-> iters, closes |-> closes, yielded |-> yielded, log |-> <<>>]

IterLeave(op, arg, r) ==
    /\ iters' = r.m.iters
    /\ closes' = r.m.closes
    /\ yielded' = r.m.yielded
    /\ direct' = (direct \/ op \in {"Iter.Next", "Iter.Close", "Iter.ForEach"})
    /\ calls' = calls + 1
    /\ last' = [op |-> op, arg |-> arg,
                kind |-> IF r.err = NoErr THEN "ok" ELSE "err",
                err |-> r.err, detail |-> <<>>, obj |-> r.obj, sum |-> ZeroHash,
                log |-> r.m.log,
                pre |-> [iters |-> iters, closes |-> closes, yielded |-> yielded]]
    /\ UNCHANGED <<pack, seekable, mode, phase, cursor, offsetToHash,
                   hashToOffset, crcs, tx, store, txState, txObjs, injected,
                   source>>

\* MultiObjectIter.Next
MultiNextCall ==
    /\ calls < MaxIterCalls
    /\ IterLeave("Next", 0, MultiObjectIterNext(IterEnter))

\* MultiObjectIter.Close
MultiCloseCall ==
    /\ calls < MaxIterCalls
    /\ IterLeave("Close", 0,
                 [m |-> MultiObjectIterClose(IterEnter), obj |-> NilObj,
                  err |-> NoErr])

\* MultiObjectIter.ForEach
ForEachCall ==
    /\ calls < MaxIterCalls
    /\ \E cb \in CbPlans :
         IterLeave("ForEach", cb, ForEachIterator(IterEnter, 0, cb))

\* ObjectSliceIter.Next, ObjectLookupIter.Next, on an iterator given to
\* NewMultiObjectIter
WrappedNextCall ==
    /\ calls < MaxIterCalls
    /\ \E k \in 1..Len(source) : IterLeave("Iter.Next", k, bareNext(IterEnter, k))

\* ObjectSliceIter.Close, ObjectLookupIter.Close
WrappedCloseCall ==
    /\ calls < MaxIterCalls
    /\ \E k \in 1..Len(source) :
         IterLeave("Iter.Close", k,
                   [m |-> bareClose(IterEnter, k), obj |-> NilObj, err |-> NoErr])

\* ObjectSliceIter.ForEach, ObjectLookupIter.ForEach
WrappedForEachCall ==
    /\ calls < MaxIterCalls
    /\ \E k \in 1..Len(source), cb \in CbPlans :
         IterLeave("Iter.ForEach", [iter |-> k, cb |-> cb],
                   ForEachIterator(IterEnter, k, cb))

IterNext ==
    \/ MultiNextCall
    \/ MultiCloseCall
    \/ ForEachCall
    \/ WrappedNextCall
    \/ WrappedCloseCall
    \/ WrappedForEachCall

IterSpec == IterInit /\ [][IterNext]_vars

\* ----------------------------------------------------------------- claims
\* Positions in the history of the last call of the events with a given name.
Events(name) == {i \in DOMAIN last.log : last.log[i][1] = name}
Failed(name) == {i \in Events(name) : ~last.log[i][3]}
TopLevelReads(kind) ==
    {i \in Events("ReadObjectRet") : last.log[i][2] = 0 /\ last.log[i][3] = kind}

\* C1: in transactional mode, when a SetObject on the transaction fails during
\* Decode, Rollback is invoked exactly once and Commit never; Decode returns
\* the SetObject error if Rollback succeeded and ErrRollback carrying both
\* errors if it failed; the store holds no object of this pass.
C1_SetFailureRollsBack ==
    (last.op = "Decode" /\ mode = "tx" /\ Failed("TxSetObject") # {}) =>
        /\ Cardinality(Events("Rollback")) = 1
        /\ Events("Commit") = {}
        /\ last.kind = "err"
        /\ \A i \in Events("Rollback") :
             IF last.log[i][2]
             THEN last.err = ErrSet
             ELSE last.err = ErrRollback /\ last.detail = <<ErrRollbackFailed, ErrSet>>
        /\ store = last.pre.store

\* C2: in transactional mode every failure of Decode after Begin triggers
\* exactly one Rollback, and each run of Decode that calls Begin ends with
\* exactly one call to Commit or to Rollback.
C2_TransactionAlwaysEnded ==
    (last.op = "Decode" /\ Events("Begin") # {}) =>
        /\ Cardinality(Events("Commit")) + Cardinality(Events("Rollback")) = 1
        /\ (last.kind # "ok" /\ Events("Commit") = {}) =>
               Cardinality(Events("Rollback")) = 1

\* C3: in transactional mode Commit is called at most once per Decode, and
\* only after all N objects of the pack were read and set through the
\* transaction without error; a run in which a ReadObject or a SetObject
\* failed never calls Commit.
C3_CommitOnlyAfterAllSet ==
    last.op = "Decode" =>
        /\ Cardinality(Events("Commit")) <= 1
        /\ \A c \in Events("Commit") :
             /\ mode = "tx"
             /\ Cardinality({i \in TopLevelReads("ok") : i < c}) = Len(pack)
             /\ Cardinality({i \in Events("TxSetObject") : i < c /\ last.log[i][3]})
                  = Len(pack)
             /\ TopLevelReads("err") = {}
             /\ TopLevelReads("panic") = {}
             /\ Failed("TxSetObject") = {}

C3_Witness ==
    /\ last.op = "Decode"
    /\ mode = "tx"
    /\ Events("Commit") # {}
    /\ Len(pack) = MaxObjs

\* The activations of ReadObjectAt in the last call: <<i, j>> where event i is
\* the entry of an activation and event j its return.
Activations ==
    {<<i, j>> \in Events("ReadObjectAt") \X Events("ReadObjectAtRet") :
        /\ i < j
        /\ last.log[j][2] = last.log[i][2]
        /\ \A k \in Events("ReadObjectAtRet") :
             (i < k /\ k < j) => last.log[k][2] # last.log[i][2]}
\* The first Seek of the activation that starts at event i succeeded.
Jumped(i) ==
    seekable /\ last.log[i + 1][1] = "Seek" /\ last.log[i + 1][3]

\* C4 as stated: on a seekable scanner the cursor after every ReadObjectAt,
\* nested ones included, equals the cursor before it.
C4_CursorAlwaysRestored ==
    seekable =>
        \A a \in Activations : last.log[a[2]][3] = last.log[a[1]][3]

\* C4, amended: a ReadObjectAt whose first Seek succeeded ends with one Seek
\* back to the position saved, whether ReadObject succeeded, failed or
\* panicked, and the cursor after the call equals the cursor before it
\* whenever that Seek succeeds; on a scanner that is not seekable the cursor
\* is not moved.
C4_CursorRestoredIfSeekBackSucceeds ==
    \A a \in Activations :
        LET i == a[1]
            j == a[2]
        IN /\ Jumped(i) =>
                /\ last.log[j - 1][1] = "Seek"
                /\ last.log[j - 1][2] = last.log[i][3]
                /\ last.log[j - 1][3] => last.log[j][3] = last.log[i][3]
           /\ ~seekable => last.log[j][3] = last.log[i][3]

\* A nested ReadObjectAt whose ReadObject failed and that moved the cursor back.
C4_Witness ==
    \E a \in Activations :
        /\ last.log[a[1]][2] >= 1
        /\ Jumped(a[1])
        /\ last.log[a[2] - 1][3]
        /\ last.log[a[2] - 2][1] = "ReadObjectRet"
        /\ last.log[a[2] - 2][3] = "err"
        /\ last.log[a[1] + 1][2] # last.log[a[1]][3]

\* C5: when the inner ReadObject succeeds and the Seek back fails,
\* ReadObjectAt returns the Seek error; when the inner ReadObject fails,
\* ReadObjectAt returns that error whatever the Seek back does.
C5_SeekBackErrorReturned ==
    (last.op = "ReadObjectAt" /\ last.kind \in {"ok", "err"}
       /\ Events("ReadObjectAt") # {} /\ Jumped(1)) =>
        LET n == Len(last.log)
            inner == last.log[n - 2]
            back == last.log[n - 1]
        IN /\ inner[1] = "ReadObjectRet" /\ inner[2] = 1
           /\ back[1] = "Seek"
           /\ (inner[3] = "ok" /\ ~back[3]) =>
                  last.kind = "err" /\ last.err = ErrSeek
           /\ (inner[3] = "ok" /\ back[3]) => last.kind = "ok"
           /\ inner[3] = "err" => last.kind = "err" /\ last.err = inner[4]

Range(m) == {m[x] : x \in DOMAIN m}
Constructed == phase \in {"ready", "crashed"}
PackOffsets == {ObjOffset(i) : i \in 1..Len(pack)}

\* C6 as stated: offsetToHash and hashToOffset are mutual inverses in every
\* state a decoder reaches by ReadObject, ReadObjectAt and Decode calls, packs
\* with the same content at two offsets included.
C6_MutualInverses ==
    (Constructed /\ ~injected) =>
        /\ \A o \in DOMAIN offsetToHash :
             /\ offsetToHash[o] \in DOMAIN hashToOffset
             /\ hashToOffset[offsetToHash[o]] = o
        /\ \A h \in DOMAIN hashToOffset :
             /\ hashToOffset[h] \in DOMAIN offsetToHash
             /\ offsetToHash[hashToOffset[h]] = h

\* C6, amended: after ReadObject, ReadObjectAt and Decode calls (no SetOffsets),
\* hashToOffset[h] = o implies offsetToHash[o] = h, and every
\* hash of offsetToHash is a key of hashToOffset; offsetToHash[o] = h implies
\* hashToOffset[h] = o unless the same content was decoded at another offset
\* (hashToOffset keeps one offset per hash, offsetToHash keeps every offset).
C6_HashToOffsetInverts ==
    (Constructed /\ ~injected) =>
        /\ \A h \in DOMAIN hashToOffset :
             /\ hashToOffset[h] \in DOMAIN offsetToHash
             /\ offsetToHash[hashToOffset[h]] = h
        /\ \A o \in DOMAIN offsetToHash :
             /\ offsetToHash[o] \in DOMAIN hashToOffset
             /\ hashToOffset[offsetToHash[o]] # o =>
                  \E o2 \in DOMAIN offsetToHash :
                      o2 # o /\ offsetToHash[o2] = offsetToHash[o]

\* The same content decoded at two offsets.
C6_Witness ==
    /\ Constructed
    /\ \E o1, o2 \in DOMAIN offsetToHash :
         /\ o1 # o2
         /\ offsetToHash[o1] = offsetToHash[o2]
         /\ hashToOffset[offsetToHash[o1]] = o2

\* C7 as stated: after a successful Decode of a pack of count objects (on a
\* decoder whose offsets were not injected), crcs and hashToOffset have exactly
\* count entries.
C7_CrcPerObject ==
    (last.op = "Decode" /\ last.kind = "ok" /\ ~injected) =>
        /\ Cardinality(DOMAIN crcs) = Len(pack)
        /\ Cardinality(DOMAIN hashToOffset) = Len(pack)

\* C7, amended: after a successful Decode of a pack of count objects (on a
\* decoder whose offsets were not injected), offsetToHash has one entry per
\* offset at which an object was decoded, and crcs and hashToOffset have one
\* entry per distinct hash of the decoded objects: at most count entries each.
\* When no Seek failed during the Decode every object of the pack was decoded:
\* offsetToHash has exactly count entries, and crcs and hashToOffset have
\* exactly count when no two objects have the same hash.
C7_CrcPerDistinctHash ==
    (last.op = "Decode" /\ last.kind = "ok" /\ ~injected) =>
        /\ DOMAIN offsetToHash \subseteq PackOffsets
        /\ DOMAIN crcs = Range(offsetToHash)
        /\ DOMAIN hashToOffset = Range(offsetToHash)
        /\ Cardinality(DOMAIN crcs) <= Cardinality(DOMAIN offsetToHash)
        /\ Cardinality(DOMAIN offsetToHash) <= Len(pack)
        /\ Failed("Seek") = {} =>
             /\ DOMAIN offsetToHash = PackOffsets
             /\ (\A o1, o2 \in PackOffsets :
                    offsetToHash[o1] = offsetToHash[o2] => o1 = o2)
                  => Cardinality(DOMAIN crcs) = Len(pack)

\* A successful Decode of a pack of three objects with a delta, each object
\* with its own hash.
C7_Witness ==
    /\ last.op = "Decode"
    /\ last.kind = "ok"
    /\ ~injected
    /\ Len(pack) = MaxLongObjs
    /\ Failed("Seek") = {}
    /\ \E i \in 1..Len(pack) : pack[i].type = "ofs-delta"
    /\ Cardinality(DOMAIN crcs) = Len(pack)

\* C8: Decode reads the pack header once, then makes exactly N top-level
\* ReadObject calls, and only then returns the scanner's checksum; when the
\* header or an object fails it returns the zero hash with that error and
\* never asks for the checksum; an empty pack leaves the three maps empty.
C8_DecodeReadsCountObjects ==
    last.op = "Decode" =>
        LET reads == {i \in Events("ReadObject") : last.log[i][2] = 0}
            n == Len(last.log)
        IN /\ Events("Header") = {1}
           /\ Cardinality(reads) <= Len(pack)
           /\ Cardinality(Events("Checksum")) <= 1
           /\ Events("Checksum") # {} =>
                /\ Events("Checksum") = {n}
                /\ Cardinality(reads) = Len(pack)
                /\ Cardinality(TopLevelReads("ok")) = Len(pack)
           /\ last.kind = "ok" =>
                /\ Events("Checksum") = {n}
                /\ last.log[n][2]
                /\ last.sum = PackSum(pack, 1)
                /\ (Len(pack) = 0 /\ last.pre.crcs = EmptyMap /\ ~injected) =>
                       /\ offsetToHash = EmptyMap
                       /\ hashToOffset = EmptyMap
                       /\ crcs = EmptyMap
           /\ ~last.log[1][2] =>
                /\ last.kind = "err" /\ last.err = ErrHeader
                /\ last.sum = ZeroHash
                /\ n = 1
           /\ \A i \in TopLevelReads("err") :
                /\ last.kind = "err" /\ last.err = last.log[i][4]
                /\ last.sum = ZeroHash
                /\ i = n
                /\ Cardinality(reads) = Cardinality(TopLevelReads("ok")) + 1

\* A successful Decode of a full pack, and of an empty one.
C8_Witness ==
    /\ last.op = "Decode"
    /\ last.kind = "ok"
    /\ Len(pack) = MaxObjs
    /\ mode = "none"
    /\ last.sum = PackSum(pack, 1)

\* C9: a RefDelta whose base the pack cannot serve is resolved through the
\* store whenever a store is present: with the base in the store ReadObject
\* returns an object of the base's type with the delta applied; when the
\* store answers ObjectNotFound, ReadObject fails with ObjectNotFound and
\* adds no entry to Offsets; another store error is returned unchanged.
C9_RefDeltaThroughStore ==
    LET at == IF last.op = "Decode" THEN 1 ELSE last.pre.cursor
        i == (at + 1) \div 2
    IN
    (/\ \/ last.op = "ReadObject"
        \/ last.op = "Decode" /\ last.log[1][2] /\ TopLevelReads("ok") = {}
     /\ mode # "none"
     /\ at \in PackOffsets
     /\ pack[i].type = "ref-delta"
     /\ ~seekable \/ pack[i].ref \notin DOMAIN last.pre.hashToOffset
     /\ last.err # ErrZLib) =>
        LET held == {o \in last.pre.store : Hash(o) = pack[i].ref}
            base == CHOOSE o \in held : TRUE
        IN \/ last.kind = "err" /\ last.err = ErrStore
           \/ /\ held # {}
              /\ last.kind = "ok"
              /\ last.obj.type = base.type
              /\ last.obj.data = ApplyDelta(last.obj, base, pack[i].data, NoFault).obj.data
           \/ /\ held # {}
              /\ last.kind = "err" /\ last.err = ErrInvalidDelta
           \/ /\ held = {}
              /\ last.kind = "err" /\ last.err = ErrObjectNotFound
              /\ hashToOffset = last.pre.hashToOffset

\* C10: NewDecoder fails with ErrNonSeekable exactly when the scanner is not
\* seekable and there is no store, and otherwise returns a decoder with three
\* empty maps; on a scanner that is not seekable every ReadObjectAt fails with
\* ErrNonSeekable, moves no cursor and changes no map.
C10_NonSeekableContract ==
    /\ last.op = "NewDecoder" =>
         /\ phase = "failed" <=> (~seekable /\ mode = "none")
         /\ phase = "failed" => last.kind = "err" /\ last.err = ErrNonSeekable
         /\ phase # "failed" =>
              /\ phase = "ready" /\ last.kind = "ok"
              /\ offsetToHash = EmptyMap
              /\ hashToOffset = EmptyMap
              /\ crcs = EmptyMap
    /\ (last.op = "ReadObjectAt" /\ ~seekable) =>
         /\ mode # "none"
         /\ last.kind = "err" /\ last.err = ErrNonSeekable
         /\ Events("Seek") = {}
         /\ cursor = last.pre.cursor
         /\ offsetToHash = last.pre.offsetToHash
         /\ hashToOffset = last.pre.hashToOffset
         /\ crcs = last.pre.crcs

\* ReadObjectAt refused on a decoder that has read an object from a scanner
\* that is not seekable.
C10_Witness ==
    /\ last.op = "ReadObjectAt"
    /\ ~seekable
    /\ cursor > 1
    /\ DOMAIN hashToOffset # {}
    /\ last.arg = 1

\* How many objects a wrapped iterator yields before io.EOF or an error, the
\* objects, and whether io.EOF follows them.
Found(it) ==
    IF it.kind = "slice" THEN Len(it.series)
    ELSE CHOOSE k \in 0..(Len(it.series) - it.pos) :
           /\ \A j \in 1..k : StorerObject(it.series[it.pos + j]).err = NoErr
           /\ k < Len(it.series) - it.pos =>
                StorerObject(it.series[it.pos + k + 1]).err # NoErr
ObjsOf(it) ==
    [j \in 1..Found(it) |->
        IF it.kind = "slice" THEN it.series[j]
        ELSE StorerObject(it.series[it.pos + j]).obj]
EndsWithEOF(it) == it.kind = "slice" \/ it.pos + Found(it) = Len(it.series)

\* The objects a MultiObjectIter over its yields, call after call.
RECURSIVE Expected(_)
Expected(its) ==
    IF its = <<>> THEN <<>>
    ELSE IF EndsWithEOF(its[1]) THEN ObjsOf(its[1]) \o Expected(Tail(its))
    ELSE ObjsOf(its[1])

\* C11: ForEachIterator gives the callback each object the iterator yields, in
\* order, and stops at the first of: Next returns io.EOF (result nil), Next
\* returns another error (result that error), the callback returns ErrStop
\* (result nil), the callback returns another error (result that error);
\* nothing is asked of the iterator or the callback after that but one Close.
\* The iterator is a MultiObjectIter or one of the iterators it wraps.
C11_ForEachStopsAndCloses ==
    last.op \in {"ForEach", "Iter.ForEach"} =>
        LET n == Len(last.log)
            t == IF last.op = "ForEach" THEN 0 ELSE last.arg.iter
            cbs == Events("cb")
            nexts == Events("iter.Next")
            stops == {i \in cbs \cup nexts : last.log[i][2] # NoErr}
            new == Len(yielded) - Len(last.pre.yielded)
            given == IF t = 0 THEN Expected(last.pre.iters)
                     ELSE ObjsOf(IterOf(last.pre, t))
            nth(i) == Cardinality({k \in cbs : k <= i})
        IN /\ IF t = 0 THEN Events("MultiClose") = {n}
              ELSE Events("Close") = {n} /\ last.log[n][2] = t
           /\ closes[t] = last.pre.closes[t] + 1
           /\ stops = {n - 1}
           /\ \A i \in cbs :
                /\ i - 1 \in nexts
                /\ last.log[i - 1][2] = NoErr
                /\ last.log[i - 1][3] = last.log[i][3]
                /\ nth(i) <= Len(given)
                /\ last.log[i][3] = Hash(given[nth(i)])
           /\ \A i \in nexts : last.log[i][2] = NoErr => i + 1 \in cbs
           /\ t # 0 => yielded = last.pre.yielded
           /\ t = 0 =>
                /\ Cardinality(cbs) = new
                /\ \A i \in cbs :
                     last.log[i][3] = Hash(yielded[Len(last.pre.yielded) + nth(i)])
           /\ last.err =
                (IF last.log[n - 1][2] \in {EOF, ErrStop}
                 THEN NoErr ELSE last.log[n - 1][2])

\* The callback stopped a ForEach with ErrStop at its second object, before
\* the iterators were exhausted.
C11_Witness ==
    /\ last.op = "ForEach"
    /\ last.kind = "ok"
    /\ Cardinality(Events("cb")) = 2
    /\ last.log[Len(last.log) - 1] = <<"cb", ErrStop, Hash(yielded[2])>>
    /\ Len(source) = MaxIters
    /\ Len(iters) = 1

\* C12: repeated calls of MultiObjectIter.Next yield the objects of the wrapped
\* iterators in order; a wrapped iterator that reports io.EOF is closed and
\* removed before the next one is asked; once every iterator is exhausted Next
\* returns io.EOF, on every later call too; an error other than io.EOF is
\* returned and leaves the iterator that gave it first in line.  The wrapped
\* iterators are taken as they are when Next is called: what their owner took
\* from them directly is not yielded again.
C12_MultiNextInOrder ==
    LET n == Len(last.log)
        wraps(its, k) == \E j \in DOMAIN its : its[j].id = k
    IN
    /\ (closes[0] = 0 /\ ~direct) =>
         /\ yielded \o Expected(iters) = Expected(source)
         /\ \A k \in 1..Len(source) :
              closes[k] = IF \E j \in DOMAIN iters : iters[j].id = k THEN 0 ELSE 1
    /\ \E k \in 0..Len(source) :
         /\ Len(iters) = Len(source) - k
         /\ \A j \in DOMAIN iters : iters[j].id = source[k + j].id
    /\ last.op = "Next" =>
         /\ \A k \in 1..Len(source) :
              closes[k] = last.pre.closes[k]
                            + (IF wraps(last.pre.iters, k) /\ ~wraps(iters, k)
                               THEN 1 ELSE 0)
         /\ closes[0] = last.pre.closes[0]
         /\ last.pre.iters = <<>> => last.err = EOF
         /\ last.err = EOF => iters = <<>>
         /\ last.kind = "ok" =>
              /\ last.obj = Expected(last.pre.iters)[1]
              /\ yielded = Append(last.pre.yielded, last.obj)
         /\ last.kind # "ok" => yielded = last.pre.yielded
         /\ last.err \notin {NoErr, EOF} =>
              /\ iters # <<>>
              /\ last.log[n] = <<"Next", iters[1].id, last.err>>
              /\ iters[1] \in {last.pre.iters[j] : j \in DOMAIN last.pre.iters}
         /\ \A i \in Events("Next") :
              IF last.log[i][3] = EOF
              THEN /\ last.log[i + 1] = <<"Close", last.log[i][2]>>
                   /\ i + 2 <= n =>
                        /\ last.log[i + 2][1] = "Next"
                        /\ last.log[i + 2][2] = last.log[i][2] + 1
              ELSE i = n

\* Three calls of Next on two iterators of one object each: the object of the
\* first, the object of the second, io.EOF.
C12_Witness ==
    /\ last.op = "Next"
    /\ last.err = EOF
    /\ closes[0] = 0
    /\ ~direct
    /\ Len(source) = MaxIters
    /\ Len(yielded) = 2
    /\ Len(ObjsOf(source[1])) = 1
    /\ source[2].kind = "lookup"

\* The object of the pack whose header is at offset o.
At(o) == pack[(o + 1) \div 2]
\* The header offset of the OfsDelta that makes the recall logged as event i:
\* the ReadObject activation it belongs to was entered at event i - 1.
Owner(i) == last.log[i - 1][3]

\* C13: for an OfsDelta whose header has offset O and offset-reference D,
\* ReadObject recalls the base at pack offset O - D: the offset given to
\* recallByOffset is the header offset minus the offset-reference.
C13_BaseAtOffsetMinusDelta ==
    \A i \in Events("recallByOffset") :
        /\ last.log[i - 1][1] = "ReadObject"
        /\ At(Owner(i)).type = "ofs-delta"
        /\ last.log[i][2] = Owner(i) - At(Owner(i)).ofs

\* C14: on a scanner that is not seekable, recallByOffset(O) with O a key of
\* offsetToHash fetches the object from the store, through the transaction
\* when the store is transactional and directly otherwise, and with O absent
\* fails with ObjectNotFound; the recall of a base that was decoded earlier
\* in the pass asks the store and does not end in a run-time panic.
C14_NonSeekableRecallThroughStore ==
    (~seekable /\ last.op \in {"Decode", "ReadObject"}) =>
        /\ \A i \in Events("recallByOffset") :
             IF last.log[i][2] \in last.log[i][3]
             THEN /\ i < Len(last.log)
                  /\ last.log[i + 1][1] =
                       (IF mode = "tx" THEN "TxObject" ELSE "Object")
             ELSE /\ i < Len(last.log)
                  /\ last.log[i + 1][1] = "ReadObjectRet"
                  /\ last.log[i + 1][3] = "err"
                  /\ last.log[i + 1][4] = ErrObjectNotFound

\* C16: when the base of an OfsDelta at offset O with offset-reference D is
\* recalled, D > 0 and O - D is a key of offsetToHash; an OfsDelta for which
\* this does not hold is rejected: its ReadObject returns an error.
C16_OfsDeltaTopologicalRule ==
    \A i \in Events("recallByOffset") :
        \/ /\ At(Owner(i)).ofs > 0
           /\ (Owner(i) - At(Owner(i)).ofs) \in last.log[i][3]
        \/ \E j \in Events("ReadObjectRet") :
              /\ j > i
              /\ last.log[j][2] = last.log[i - 1][2]
              /\ \A k \in Events("ReadObjectRet") :
                   (i < k /\ k < j) => last.log[k][2] # last.log[i - 1][2]
              /\ last.log[j][3] = "err"

\* The ReadObject activations of the last call that returned an object.
OkRets == {j \in Events("ReadObjectRet") : last.log[j][3] = "ok"}
\* The event at which the activation that returns at event j was entered.
EntryOf(j) ==
    CHOOSE i \in Events("ReadObject") :
        /\ i < j
        /\ last.log[i][2] = last.log[j][2]
        /\ \A k \in Events("ReadObject") :
             (i < k /\ k < j) => last.log[k][2] # last.log[j][2]
OffsetOf(j) == last.log[EntryOf(j)][3]
HashOf(j) == last.log[j][5]
\* The last activation that returned an object with OffsetOf (HashOf) x.
LastAt(x) ==
    CHOOSE j \in OkRets :
        /\ OffsetOf(j) = x
        /\ \A k \in OkRets : OffsetOf(k) = x => k <= j
LastOf(x) ==
    CHOOSE j \in OkRets :
        /\ HashOf(j) = x
        /\ \A k \in OkRets : HashOf(k) = x => k <= j
DecodingCall == last.op \in {"Decode", "ReadObject", "ReadObjectAt"}

\* C15: the index changes in ReadObject only, after the object was decoded: a
\* call leaves the three maps as they were but for one insertion into each
\* (offsetToHash[O] = H, hashToOffset[H] = O, crcs[H]) per ReadObject that
\* returned an object, nested ones included, and nothing for a ReadObject that
\* failed; when Decode fails, the keys of offsetToHash are the offsets of the
\* objects decoded before the failure: the first i - 1 offsets of the pack
\* when i - 1 top-level reads succeeded and every Seek back did, and besides
\* those only offsets of bases that ReadObjectAt decoded.
C15_IndexOnlyAfterSuccessfulRead ==
    DecodingCall =>
        LET offs == {OffsetOf(j) : j \in OkRets}
            hashes == {HashOf(j) : j \in OkRets}
        IN /\ offsetToHash =
                [o \in DOMAIN last.pre.offsetToHash \cup offs |->
                    IF o \in offs THEN HashOf(LastAt(o))
                    ELSE last.pre.offsetToHash[o]]
           /\ hashToOffset =
                [h \in DOMAIN last.pre.hashToOffset \cup hashes |->
                    IF h \in hashes THEN OffsetOf(LastOf(h))
                    ELSE last.pre.hashToOffset[h]]
           /\ crcs =
                [h \in DOMAIN last.pre.crcs \cup hashes |->
                    IF h \in hashes THEN Crc(At(OffsetOf(LastOf(h))))
                    ELSE last.pre.crcs[h]]
           /\ (last.op = "Decode" /\ last.pre.offsetToHash = EmptyMap) =>
                /\ DOMAIN offsetToHash = offs
                /\ Failed("Seek") = {} =>
                     /\ {ObjOffset(k) : k \in 1..Cardinality(TopLevelReads("ok"))}
                          \subseteq DOMAIN offsetToHash
                     /\ \A o \in DOMAIN offsetToHash :
                          \/ o \in {ObjOffset(k) :
                                       k \in 1..Cardinality(TopLevelReads("ok"))}
                          \/ \E j \in OkRets : OffsetOf(j) = o /\ last.log[j][2] > 0

\* Decode failed at the second object, a delta whose base was decoded again by
\* ReadObjectAt: the index holds the first object only.
C15_Witness ==
    /\ last.op = "Decode"
    /\ last.kind = "err"
    /\ last.pre.offsetToHash = EmptyMap
    /\ Cardinality(TopLevelReads("ok")) = 1
    /\ TopLevelReads("err") # {}
    /\ \E j \in OkRets : last.log[j][2] > 0
    /\ DOMAIN offsetToHash = {ObjOffset(1)}
    /\ DOMAIN crcs = {offsetToHash[ObjOffset(1)]}

\* C17: with a store that is not transactional, Decode calls SetObject once
\* for each object it decoded, right after the ReadObject of that object and
\* in pack order (the k-th SetObject receives the object at the k-th offset,
\* objects decoded again as bases are not set); when a ReadObject or a
\* SetObject fails Decode stops at once: the objects set before remain in the
\* store and nothing is read or set after.
C17_PlainStoreSetsInPackOrder ==
    (last.op = "Decode" /\ mode = "plain") =>
        LET sets == Events("SetObject")
            n == Len(last.log)
            nth(i) == Cardinality({k \in sets : k <= i})
        IN /\ Events("TxSetObject") = {} /\ Events("Begin") = {}
           /\ \A i \in sets :
                /\ i - 1 \in TopLevelReads("ok")
                /\ last.log[i][2] = HashOf(i - 1)
                /\ OffsetOf(i - 1) = ObjOffset(nth(i))
                /\ ~last.log[i][3] =>
                     i = n /\ last.kind = "err" /\ last.err = ErrSet
           /\ \A j \in TopLevelReads("ok") : j + 1 \in sets
           /\ \A j \in Events("ReadObjectRet") :
                (last.log[j][2] = 0 /\ last.log[j][3] # "ok") =>
                    j = n /\ last.kind = last.log[j][3] /\ last.err = last.log[j][4]
           /\ Cardinality(sets) <= Len(pack)
           /\ {Hash(o) : o \in store} =
                {Hash(o) : o \in last.pre.store}
                  \cup {last.log[i][2] : i \in sets \ Failed("SetObject")}
           /\ last.kind = "ok" => Cardinality(sets) = Len(pack)

\* C18: every object a ReadObject returns without error, nested ones
\* included, has one of the types commit, tree, blob, tag, and so has every
\* object given to the store: a delta takes the type of its base before it is
\* hashed.
C18_ReturnedTypesAreRegular ==
    /\ \A j \in OkRets : last.log[j][6] \in RegularTypes
    /\ (last.op \in {"ReadObject", "ReadObjectAt"} /\ last.kind = "ok") =>
         /\ last.obj.type \in RegularTypes
         /\ Hash(last.obj) = HashOf(Len(last.log) -
                                      (IF last.op = "ReadObject" THEN 0 ELSE 2))
    /\ \A o \in store \cup txObjs : o.type \in RegularTypes

\* A chain of two deltas: the third object is an OfsDelta whose base, the
\* second object, is an OfsDelta on a blob; both decode to blobs, the base as
\* an activation nested twice, and the store is given blobs.
C18_Witness ==
    /\ last.op = "Decode"
    /\ last.kind = "ok"
    /\ mode = "plain"
    /\ Len(pack) = MaxLongObjs
    /\ pack[1].type = "blob"
    /\ pack[2].type = "ofs-delta" /\ pack[2].ofs = ObjOffset(1)
    /\ pack[3].type = "ofs-delta" /\ pack[3].ofs = ObjOffset(2)
    /\ \E j \in OkRets :
         /\ last.log[j][2] = 2
         /\ OffsetOf(j) = ObjOffset(1)
         /\ last.log[j][6] = "blob"
    /\ \E j \in OkRets :
         /\ last.log[j][2] = 1
         /\ OffsetOf(j) = ObjOffset(2)
         /\ last.log[j][6] = "blob"
    /\ \E j \in TopLevelReads("ok") :
         /\ OffsetOf(j) = ObjOffset(3)
         /\ last.log[j][6] = "blob"
         /\ last.log[j + 1] = <<"SetObject", HashOf(j), TRUE>>

\* C19: SetOffsets(m) replaces hashToOffset by m and leaves offsetToHash, crcs
\* and the scanner as they were; Offsets then returns m; on a seekable
\* scanner the base of a RefDelta whose hash is a key of hashToOffset is read
\* by ReadObjectAt at the offset the map gives, and the store is not asked.
C19_SetOffsetsReplacesOneMap ==
    /\ last.op = "SetOffsets" =>
         /\ hashToOffset = last.arg
         /\ GetOffsets = last.arg
         /\ offsetToHash = last.pre.offsetToHash
         /\ CRCs = last.pre.crcs
         /\ cursor = last.pre.cursor
         /\ store = last.pre.store
    /\ (injected /\ seekable /\ DecodingCall) =>
         \A i \in Events("recallByHash") :
            last.log[i][2] \in DOMAIN last.log[i][3] =>
                /\ i + 2 <= Len(last.log)
                /\ last.log[i + 1][1] = "ReadObjectAt"
                /\ last.log[i + 2][1] = "Seek"
                /\ last.log[i + 2][2] = last.log[i][3][last.log[i][2]]

\* On a decoder that decoded nothing, a RefDelta read by ReadObjectAt whose base
\* is found through the injected map alone.
C19_Witness ==
    /\ injected
    /\ seekable
    /\ last.op = "ReadObjectAt"
    /\ last.kind = "ok"
    /\ last.pre.offsetToHash = EmptyMap
    /\ \E i \in Events("recallByHash") :
         /\ last.log[i][3] = last.pre.hashToOffset
         /\ last.log[i][2] \in DOMAIN last.pre.hashToOffset

\* The ReadObject activation entered at event j has not returned at event i.
InProgress(j, i) ==
    /\ j < i
    /\ \A k \in Events("ReadObjectRet") :
         (j < k /\ k < i) => last.log[k][2] # last.log[j][2]

\* C20: on a seekable scanner every call terminates: the recursion ReadObject
\* -> recallByOffset/recallByHash -> ReadObjectAt -> ReadObject never enters
\* the offset of an object whose decode is in progress, so the stack is never
\* exhausted and at most Len(pack) activations are nested.
C20_RecursionTerminates ==
    seekable =>
        /\ last.kind # "overflow"
        /\ \A i, j \in Events("ReadObject") :
             InProgress(j, i) => last.log[i][3] # last.log[j][3]
        /\ \A i \in Events("ReadObject") :
             Cardinality({j \in Events("ReadObject") :
                            InProgress(j, i) /\ last.log[j][3] \in PackOffsets})
               < Len(pack) \/ last.log[i][3] \notin PackOffsets

====
